---- MODULE Spec2Model ----
(***************************************************************************)
(* One run of the task dashboard script (src/task_dashboard.py): the       *)
(* uploaded CSV files are loaded and concatenated, the sidebar filter      *)
(* builds the filtered view, and the ten tabs compute their tables and     *)
(* insights in source order.  An exception raised by a step ends the run.  *)
(*                                                                         *)
(* Representation.                                                         *)
(*   - A text cell is a string; the missing text cell (pandas NaN) is the  *)
(*     string NaN.                                                         *)
(*   - A numeric cell is a sequence of at most one integer: <<>> is the    *)
(*     missing value (NaN / NaT), <<v>> the value v.                       *)
(*   - A raw started_at cell is <<day, hour>> for a timestamp text that    *)
(*     parses (day counted from a Monday, hour 0..23) and <<>> for a text  *)
(*     that does not parse.  A parsed timestamp is <<24*day + hour>>.      *)
(*   - A data frame is a sequence of rows; each row carries its index      *)
(*     label, as a pandas row does.                                        *)
(*   - Quartiles and outlier bounds are kept in eighths of a minute, which *)
(*     is exact for whole-minute durations.                                *)
(***************************************************************************)
EXTENDS Integers, Sequences, FiniteSets, TLC

VARIABLES uploaded_files, df, users, min_date, max_date,
          selected_users, selected_dates, filtered_df,
          tab1, tab2, tab3, tab4, tab5, tab6, tab7, tab8, tab9, tab10,
          pc, error

vars == <<uploaded_files, df, users, min_date, max_date,
          selected_users, selected_dates, filtered_df,
          tab1, tab2, tab3, tab4, tab5, tab6, tab7, tab8, tab9, tab10,
          pc, error>>

tabs == <<tab1, tab2, tab3, tab4, tab5, tab6, tab7, tab8, tab9, tab10>>

----------------------------------------------------------------------------
(* Bounds of the model *)

\* longest generic uploaded table
MaxRows == 2
\* most files in one upload
MaxFiles == 2
\* calendar days 0..MaxDay appear in the data and in the date picker
MaxDay == 2
\* longest table of one user's durations
MaxDurations == 4

----------------------------------------------------------------------------
(* Cells and missing values *)

NaN == "NaN"
NA == <<>>
Num(v) == <<v>>
Val(c) == c[1]

RECURSIVE SumSeq(_)
SumSeq(s) == IF s = <<>> THEN 0 ELSE Head(s) + SumSeq(Tail(s))

RECURSIVE MapVal(_)
MapVal(s) == IF s = <<>> THEN <<>> ELSE <<Val(Head(s))>> \o MapVal(Tail(s))

RECURSIVE Concat(_)
Concat(ss) == IF ss = <<>> THEN <<>> ELSE Head(ss) \o Concat(Tail(ss))

SeqsUpTo(S, n) == UNION {[1..k -> S] : k \in 0..n}

Range(s) == {s[i] : i \in DOMAIN s}

----------------------------------------------------------------------------
(* Series reductions, as pandas computes them (skipna) *)

\* the non-missing values of a numeric column, in row order
dropna(col) == MapVal(SelectSeq(col, LAMBDA c : c # NA))
Column(frame, name) == [i \in DOMAIN frame |-> frame[i][name]]
\* Series.sum(): missing values are skipped, the empty sum is 0
SeriesSum(col) == SumSeq(dropna(col))
\* Series.count(): the number of non-missing values
SeriesCount(col) == Len(dropna(col))
\* Series.min() / Series.max(): missing when no value is present
SeriesMin(col) ==
    LET v == Range(dropna(col))
    IN  IF v = {} THEN NA ELSE Num(CHOOSE x \in v : \A y \in v : x <= y)
SeriesMax(col) ==
    LET v == Range(dropna(col))
    IN  IF v = {} THEN NA ELSE Num(CHOOSE x \in v : \A y \in v : x >= y)

----------------------------------------------------------------------------
(* load_all_data *)

\* pd.to_datetime(..., errors='coerce'): an unparseable text becomes NaT
to_datetime(cell) ==
    IF Len(cell) = 2 THEN Num(24 * cell[1] + cell[2]) ELSE NA
\* .dt.date and .dt.hour: missing for NaT
dt_date(ts) == IF ts = NA THEN NA ELSE Num(Val(ts) \div 24)
dt_hour(ts) == IF ts = NA THEN NA ELSE Num(Val(ts) % 24)

HasColumn(file, name) == name \in file.columns

\* one file's frame after lines 39-42
LoadFile(file) ==
    [i \in DOMAIN file.rows |->
        LET raw == file.rows[i]
            ts  == to_datetime(raw.started_at)
        IN  [user_first_name |-> raw.user_first_name,
             user_last_name  |-> raw.user_last_name,
             user_locale     |-> raw.user_locale,
             task            |-> raw.task,
             minutes         |-> raw.minutes,
             started_at      |-> ts,
             date            |-> dt_date(ts),
             hour            |-> dt_hour(ts)]]

\* pd.concat(combined, ignore_index=True): rows in upload order, relabelled
ConcatFrames(frames) ==
    LET all == Concat(frames)
    IN  [i \in DOMAIN all |->
            [index           |-> i,
             user_first_name |-> all[i].user_first_name,
             user_last_name  |-> all[i].user_last_name,
             user_locale     |-> all[i].user_locale,
             task            |-> all[i].task,
             minutes         |-> all[i].minutes,
             started_at      |-> all[i].started_at,
             date            |-> all[i].date,
             hour            |-> all[i].hour]]

load_all_data(files) == ConcatFrames([f \in DOMAIN files |-> LoadFile(files[f])])

----------------------------------------------------------------------------
(* The uploads the model draws from *)

AllColumns == {"user_first_name", "user_last_name", "user_locale", "task",
               "minutes", "started_at"}

RawRow(first, last, locale, task, minutes, cell) ==
    [user_first_name |-> first, user_last_name |-> last, user_locale |-> locale,
     task |-> task, minutes |-> minutes, started_at |-> cell]

CsvFile(columns, rows) == [columns |-> columns, rows |-> rows]

Days == 0..MaxDay
\* started_at texts: one that does not parse, and 09:00 on each day
Cells == {<<>>} \cup {<<d, 9>> : d \in Days}

\* rows that differ in user and timestamp (the filter's dimensions)
FilterRows ==
    {RawRow(u, "X", "en", "t", Num(10), c) : u \in {"A", "B", NaN}, c \in Cells}
\* rows that differ in the grouping keys and in minutes
GroupRows ==
    {RawRow(k[1], k[2], k[3], "t", m, <<0, 9>>) :
        k \in {<<"A", "X", "en">>, <<"B", "X", "en">>,
               <<"A", NaN, "en">>, <<"A", "X", NaN>>},
        m \in {NA, Num(10), Num(20)}}
\* rows that differ in the task text
TaskRows ==
    {RawRow("A", "X", "en", t, Num(10), <<0, 9>>) : t \in {NaN, "t", "u"}}
\* rows that differ in the hour and the weekday
HourRows ==
    {RawRow("A", "X", "en", "t", Num(10), c) :
        c \in {<<>>, <<0, 9>>, <<0, 23>>, <<1, 0>>, <<1, 9>>}}
\* one user's rows that differ in minutes only
DurationRows ==
    {RawRow("A", "X", "en", "t", m, <<0, 9>>) :
        m \in {NA, Num(1), Num(2), Num(3), Num(100)}}

DurationTable(ms) ==
    [i \in DOMAIN ms |-> RawRow("A", "X", "en", "t", Num(ms[i]), <<0, 9>>)]

\* a longer table that mixes users, days and missing values
MixedTable ==
    <<RawRow("B", "X", "en", "t", Num(10), <<1, 9>>),
      RawRow("A", "X", "en", "t", Num(20), <<0, 9>>),
      RawRow(NaN, "X", "en", "t", Num(10), <<1, 9>>),
      RawRow("A", "X", "en", "u", NA, <<>>),
      RawRow("A", NaN, "en", "u", Num(30), <<2, 23>>),
      RawRow("B", "X", "en", "t", NA, <<0, 9>>)>>

\* the worked examples of the specification's section 8, and the mixed table
Examples ==
    {DurationTable(<<1, 2, 3, 100>>),
     DurationTable(<<1, 2, 3, 3, 2, 1, 1000>>),
     DurationTable(<<10, 20, 30>>),
     DurationTable(<<15>>),
     MixedTable}

Tables ==
    SeqsUpTo(FilterRows, MaxRows) \cup SeqsUpTo(GroupRows, MaxRows)
      \cup SeqsUpTo(TaskRows, MaxRows) \cup SeqsUpTo(HourRows, MaxRows)
      \cup SeqsUpTo(DurationRows, MaxDurations)
      \cup Examples

\* small files for uploads of several files; one lacks the started_at column
SmallFiles ==
    {CsvFile(AllColumns, <<RawRow(u, "X", "en", "t", Num(10), <<0, 9>>)>>) :
        u \in {"A", "B"}}
      \cup {CsvFile(AllColumns, <<>>)}
      \cup {CsvFile(AllColumns \ {"started_at"},
                    <<[user_first_name |-> "A", user_last_name |-> "X",
                       user_locale |-> "en", task |-> "t", minutes |-> Num(10)]>>)}

Uploads ==
    {<<CsvFile(AllColumns, t)>> : t \in Tables}
      \cup SeqsUpTo(SmallFiles, MaxFiles)

----------------------------------------------------------------------------
(* State *)

NotRun == [ran |-> FALSE]

Init ==
    /\ uploaded_files \in Uploads
    /\ df = <<>>
    /\ users = {}
    /\ min_date = NA
    /\ max_date = NA
    /\ selected_users = {}
    /\ selected_dates = <<>>
    /\ filtered_df = <<>>
    /\ tab1 = NotRun /\ tab2 = NotRun /\ tab3 = NotRun /\ tab4 = NotRun
    /\ tab5 = NotRun /\ tab6 = NotRun /\ tab7 = NotRun /\ tab8 = NotRun
    /\ tab9 = NotRun /\ tab10 = NotRun
    /\ pc = "start"
    /\ error = "none"

Raise(exc) == pc' = "error" /\ error' = exc

\* lines 379-380: nothing uploaded, the script only asks for files
AwaitUpload ==
    /\ pc = "start"
    /\ uploaded_files = <<>>
    /\ pc' = "done"
    /\ UNCHANGED <<uploaded_files, df, users, min_date, max_date, selected_users,
                   selected_dates, filtered_df, tabs, error>>

\* lines 46-47 with 36-44: df['started_at'] raises KeyError in the first file
\* that lacks the column, and the exception leaves load_all_data
LoadAllData ==
    /\ pc = "start"
    /\ uploaded_files # <<>>
    /\ IF \E f \in DOMAIN uploaded_files : ~HasColumn(uploaded_files[f], "started_at")
       THEN /\ Raise("KeyError")
            /\ UNCHANGED df
       ELSE /\ df' = load_all_data(uploaded_files)
            /\ pc' = "sidebar"
            /\ UNCHANGED error
    /\ UNCHANGED <<uploaded_files, users, min_date, max_date, selected_users,
                   selected_dates, filtered_df, tabs>>

----------------------------------------------------------------------------
(* Sidebar filter, lines 49-60 *)

\* df['user_first_name'].dropna().unique()
UniqueUsers(frame) ==
    {frame[i].user_first_name : i \in DOMAIN frame} \ {NaN}

\* Mask with the end of the range excluded
MaskExclusiveEnd(r, sel_users, dates) ==
    /\ r.user_first_name \in sel_users
    /\ r.date # NA
    /\ Val(r.date) >= dates[1]
    /\ Val(r.date) < dates[2]

\* one row of the mask of lines 56-59; a comparison with a missing date is False
Mask(r, sel_users, dates) ==
    /\ r.user_first_name \in sel_users
    /\ r.date # NA
    /\ Val(r.date) >= dates[1]
    /\ Val(r.date) <= dates[2]

ApplyFilter(frame, sel_users, dates) ==
    SelectSeq(frame, LAMBDA r : Mask(r, sel_users, dates))

\* The multiselect returns any subset of the offered users.  The date picker
\* returns a range of two dates, or a single date while a range is being
\* picked, and then selected_dates[1] raises IndexError.  With no date in the
\* data the default [min_date, max_date] holds missing values, which the picker
\* may reject.
Sidebar ==
    /\ pc = "sidebar"
    /\ users' = UniqueUsers(df)
    /\ min_date' = SeriesMin(Column(df, "date"))
    /\ max_date' = SeriesMax(Column(df, "date"))
    /\ \E sel \in SUBSET UniqueUsers(df) :
       \E dates \in {<<s, e>> \in Days \X Days : s <= e} \cup {<<0>>} :
          /\ selected_users' = sel
          /\ selected_dates' = dates
          /\ \/ /\ Len(dates) = 2
                /\ filtered_df' = ApplyFilter(df, sel, dates)
                /\ pc' = "tab1"
                /\ UNCHANGED error
             \/ /\ Len(dates) < 2
                /\ Raise("IndexError")
                /\ UNCHANGED filtered_df
             \/ /\ SeriesMin(Column(df, "date")) = NA
                /\ Raise("StreamlitAPIException")
                /\ UNCHANGED filtered_df
    /\ UNCHANGED <<uploaded_files, df, tabs>>

----------------------------------------------------------------------------
(* Grouping and rounding helpers *)

\* line 364
ordered_days == <<"Monday", "Tuesday", "Wednesday", "Thursday", "Friday",
                  "Saturday", "Sunday">>

\* pd.to_datetime(date).dt.day_name(); day 0 of the model is a Monday
day_name(date) == IF date = NA THEN NaN ELSE ordered_days[(Val(date) % 7) + 1]

\* the groupby keys the script uses, each named by its columns
KeyOf(r, by) ==
    CASE by = "user_first_name" -> r.user_first_name
      [] by = "task" -> r.task
      [] by = "date" -> Val(r.date)
      [] by = "user_first_name,user_last_name,user_locale" ->
            <<r.user_first_name, r.user_last_name, r.user_locale>>
      [] by = "user_first_name,task" -> <<r.user_first_name, r.task>>
      [] by = "hour,day" -> <<Val(r.hour), day_name(r.date)>>

\* no key column of the row is missing
HasKey(r, by) ==
    CASE by = "user_first_name" -> r.user_first_name # NaN
      [] by = "task" -> r.task # NaN
      [] by = "date" -> r.date # NA
      [] by = "user_first_name,user_last_name,user_locale" ->
            r.user_first_name # NaN /\ r.user_last_name # NaN /\ r.user_locale # NaN
      [] by = "user_first_name,task" -> r.user_first_name # NaN /\ r.task # NaN
      [] by = "hour,day" -> r.hour # NA /\ day_name(r.date) # NaN

\* DataFrame.groupby(by): a row with a missing key is in no group (dropna)
GroupKeys(frame, by) ==
    {KeyOf(frame[i], by) : i \in {j \in DOMAIN frame : HasKey(frame[j], by)}}
GroupRowsOf(frame, by, k) ==
    SelectSeq(frame, LAMBDA r : HasKey(r, by) /\ KeyOf(r, by) = k)
\* groupby(by)['minutes'].sum().reset_index()
GroupSum(frame, by) ==
    {[key |-> k,
      minutes |-> SeriesSum(Column(GroupRowsOf(frame, by, k), "minutes"))] :
        k \in GroupKeys(frame, by)}

\* the rows a descending sort by col may put first (ties in any order)
FirstDescending(table, col) ==
    {t \in table : \A o \in table : o[col] <= t[col]}

\* round(num / den, 2) in hundredths, ties to even; missing when den = 0
Round2(num, den) ==
    IF den = 0 THEN NA
    ELSE LET q == (100 * num) \div den
             r == (100 * num) % den
         IN  Num(IF 2 * r > den \/ (2 * r = den /\ q % 2 = 1) THEN q + 1 ELSE q)

----------------------------------------------------------------------------
(* Tab 1, lines 70-115 *)

UserKey == "user_first_name,user_last_name,user_locale"

\* lines 72-83: sum, count and mean of minutes per (first, last, locale)
UserSummary(view) ==
    {LET m == Column(GroupRowsOf(view, UserKey, k), "minutes")
     IN  [user_first_name |-> k[1], user_last_name |-> k[2], user_locale |-> k[3],
          Total_Minutes |-> SeriesSum(m),
          Task_Count |-> SeriesCount(m),
          Avg_Minutes_Per_Task |-> Round2(SeriesSum(m), SeriesCount(m))] :
        k \in GroupKeys(view, UserKey)}

\* user_summary.iloc[0] raises IndexError on the empty table (line 103)
Tab1 ==
    /\ pc = "tab1"
    /\ LET user_summary == UserSummary(filtered_df)
           minutes == Column(filtered_df, "minutes")
           result == [ran |-> TRUE,
                      user_summary |-> user_summary,
                      total_minutes |-> SeriesSum(minutes),
                      avg_minutes |-> Round2(SeriesSum(minutes), SeriesCount(minutes)),
                      total_tasks |-> Len(filtered_df),
                      top_user |-> NaN]
       IN  IF user_summary = {}
           THEN /\ tab1' = result
                /\ Raise("IndexError")
           ELSE /\ \E top \in FirstDescending(user_summary, "Total_Minutes") :
                      tab1' = [result EXCEPT !.top_user = top.user_first_name]
                /\ pc' = "tab2"
                /\ UNCHANGED error
    /\ UNCHANGED <<uploaded_files, df, users, min_date, max_date, selected_users,
                   selected_dates, filtered_df, tab2, tab3, tab4, tab5, tab6, tab7,
                   tab8, tab9, tab10>>

----------------------------------------------------------------------------
(* Tab 2, lines 118-157 *)

\* task_summary.iloc[0] (line 147) and the sorted time_chart's iloc[0]
\* (line 149) raise IndexError on an empty table
Tab2 ==
    /\ pc = "tab2"
    /\ LET time_chart == GroupSum(filtered_df, "user_first_name")
           date_chart == GroupSum(filtered_df, "date")
           task_summary == GroupSum(filtered_df, "task")
           result == [ran |-> TRUE,
                      time_chart |-> time_chart,
                      date_chart |-> date_chart,
                      task_summary |-> task_summary,
                      top_task |-> NaN,
                      most_active_user |-> NaN]
       IN  IF task_summary = {} \/ time_chart = {}
           THEN /\ tab2' = result
                /\ Raise("IndexError")
           ELSE /\ \E task \in FirstDescending(task_summary, "minutes") :
                   \E user \in FirstDescending(time_chart, "minutes") :
                      tab2' = [result EXCEPT !.top_task = task.key,
                                             !.most_active_user = user.key]
                /\ pc' = "tab3"
                /\ UNCHANGED error
    /\ UNCHANGED <<uploaded_files, df, users, min_date, max_date, selected_users,
                   selected_dates, filtered_df, tab1, tab3, tab4, tab5, tab6, tab7,
                   tab8, tab9, tab10>>

----------------------------------------------------------------------------
(* Tab 3, lines 161-193 *)

RECURSIVE Insert(_, _)
Insert(x, s) ==
    IF s = <<>> THEN <<x>>
    ELSE IF x <= Head(s) THEN <<x>> \o s
    ELSE <<Head(s)>> \o Insert(x, Tail(s))

RECURSIVE Sorted(_)
Sorted(s) == IF s = <<>> THEN <<>> ELSE Insert(Head(s), Sorted(Tail(s)))

\* Quantile without interpolation: the sorted value at or below the position
QuantileLower(col, k) ==
    LET s == Sorted(dropna(col))
        n == Len(s)
    IN  IF n = 0 THEN NA ELSE Num(8 * s[(((n - 1) * k) \div 4) + 1])

\* Series.quantile(k/4) with linear interpolation, in eighths: the value at
\* position (n-1)*k/4 of the sorted non-missing values, interpolated between
\* the two neighbours; missing when there is no value
Quantile(col, k) ==
    LET s == Sorted(dropna(col))
        n == Len(s)
        pos == (n - 1) * k
        lo == pos \div 4
        frac == pos % 4
    IN  IF n = 0 THEN NA
        ELSE IF frac = 0 THEN Num(8 * s[lo + 1])
        ELSE Num(8 * s[lo + 1] + 2 * frac * (s[lo + 2] - s[lo + 1]))

\* lines 171-173, in eighths; any operand missing gives a missing result
IQROf(q1, q3) == IF q1 = NA \/ q3 = NA THEN NA ELSE Num(Val(q3) - Val(q1))
LowerBound(q1, iqr) ==
    IF q1 = NA \/ iqr = NA THEN NA ELSE Num((2 * Val(q1) - 3 * Val(iqr)) \div 2)
\* UpperBound with the factor 1.5 left out
UpperBoundNoFactor(q3, iqr) ==
    IF q3 = NA \/ iqr = NA THEN NA ELSE Num(Val(q3) + Val(iqr))
UpperBound(q3, iqr) ==
    IF q3 = NA \/ iqr = NA THEN NA ELSE Num((2 * Val(q3) + 3 * Val(iqr)) \div 2)

\* line 176: a comparison with a missing value is False
IsOutlier(r, lower_bound, upper_bound) ==
    /\ r.minutes # NA
    /\ lower_bound # NA
    /\ upper_bound # NA
    /\ \/ 8 * Val(r.minutes) < Val(lower_bound)
       \/ 8 * Val(r.minutes) > Val(upper_bound)

Tab3 ==
    /\ pc = "tab3"
    /\ LET minutes == Column(filtered_df, "minutes")
           Q1 == Quantile(minutes, 1)
           Q3 == Quantile(minutes, 3)
           IQR == IQROf(Q1, Q3)
           lower_bound == LowerBound(Q1, IQR)
           upper_bound == UpperBound(Q3, IQR)
       IN  tab3' = [ran |-> TRUE,
                    Q1 |-> Q1, Q3 |-> Q3, IQR |-> IQR,
                    lower_bound |-> lower_bound, upper_bound |-> upper_bound,
                    outliers |-> SelectSeq(filtered_df,
                                     LAMBDA r : IsOutlier(r, lower_bound, upper_bound)),
                    shortest |-> SeriesMin(minutes),
                    longest |-> SeriesMax(minutes)]
    /\ pc' = "tab4"
    /\ UNCHANGED <<uploaded_files, df, users, min_date, max_date, selected_users,
                   selected_dates, filtered_df, tab1, tab2, tab4, tab5, tab6, tab7,
                   tab8, tab9, tab10, error>>

----------------------------------------------------------------------------
(* Tab 4, lines 196-220 *)

\* The select box offers the users of the view and returns one of them, or
\* None when it has no option; the drilldown of no user is empty.
Tab4 ==
    /\ pc = "tab4"
    /\ \E selected_user \in
            IF UniqueUsers(filtered_df) = {} THEN {"None"} ELSE UniqueUsers(filtered_df) :
          LET user_df == SelectSeq(filtered_df,
                             LAMBDA r : r.user_first_name = selected_user)
          IN  tab4' = [ran |-> TRUE,
                       selected_user |-> selected_user,
                       user_task_count |-> Len(user_df),
                       user_total |-> SeriesSum(Column(user_df, "minutes"))]
    /\ pc' = "tab5"
    /\ UNCHANGED <<uploaded_files, df, users, min_date, max_date, selected_users,
                   selected_dates, filtered_df, tab1, tab2, tab3, tab5, tab6, tab7,
                   tab8, tab9, tab10, error>>

----------------------------------------------------------------------------
(* Tab 5, lines 223-270 *)

\* .head(5) of line 231
TopN == 5
\* the share above which line 260 warns, in percent
ShareLimit == 40

\* sort_values(descending).head(TopN): TopN rows that no left-out row exceeds
Heads(table) ==
    {h \in SUBSET table :
        /\ Cardinality(h) = IF Cardinality(table) < TopN
                            THEN Cardinality(table) ELSE TopN
        /\ \A t \in h : \A o \in table \ h : o.minutes <= t.minutes}

SumOver(table) ==
    LET RECURSIVE Add(_)
        Add(T) == IF T = {} THEN 0
                  ELSE LET t == CHOOSE x \in T : TRUE
                       IN  t.minutes + Add(T \ {t})
    IN  Add(table)

\* most_active = top_users_df.iloc[0] raises IndexError on the empty table
\* (line 250); a share with a zero total is not a number and compares False
Tab5 ==
    /\ pc = "tab5"
    /\ LET total_all_users_time == SeriesSum(Column(filtered_df, "minutes"))
       IN  \E top_users_df \in Heads(GroupSum(filtered_df, "user_first_name")) :
             IF top_users_df = {}
             THEN /\ tab5' = [ran |-> TRUE, top_users_df |-> top_users_df]
                  /\ Raise("IndexError")
             ELSE /\ \E most_active \in FirstDescending(top_users_df, "minutes") :
                     LET highest_pct ==
                             Round2(100 * most_active.minutes, total_all_users_time)
                     IN  tab5' = [ran |-> TRUE,
                                  top_users_df |-> top_users_df,
                                  most_active |-> most_active.key,
                                  avg_top5 |-> Round2(SumOver(top_users_df),
                                                      Cardinality(top_users_df)),
                                  highest_pct |-> highest_pct,
                                  warned |-> /\ highest_pct # NA
                                             /\ Val(highest_pct) > 100 * ShareLimit]
                  /\ pc' = "tab6"
                  /\ UNCHANGED error
    /\ UNCHANGED <<uploaded_files, df, users, min_date, max_date, selected_users,
                   selected_dates, filtered_df, tab1, tab2, tab3, tab4, tab6, tab7,
                   tab8, tab9, tab10>>

----------------------------------------------------------------------------
(* Tab 6, lines 272-296 *)

\* value_counts(): the non-missing task texts with their number of rows
TaskCounts(view) ==
    {[key |-> k, count |-> Len(GroupRowsOf(view, "task", k))] :
        k \in GroupKeys(view, "task")}

Tab6 ==
    /\ pc = "tab6"
    /\ LET task_counts == TaskCounts(filtered_df)
       IN  \E top_wc_task \in
                IF task_counts = {} THEN {"None"}
                ELSE {t.key : t \in FirstDescending(task_counts, "count")} :
             tab6' = [ran |-> TRUE, top_wc_task |-> top_wc_task]
    /\ pc' = "tab7"
    /\ UNCHANGED <<uploaded_files, df, users, min_date, max_date, selected_users,
                   selected_dates, filtered_df, tab1, tab2, tab3, tab4, tab5, tab7,
                   tab8, tab9, tab10, error>>

----------------------------------------------------------------------------
(* Tab 7, lines 300-320 *)

\* the sorted daily_summary's iloc[0] raises IndexError on the empty table
Tab7 ==
    /\ pc = "tab7"
    /\ LET daily_summary == GroupSum(filtered_df, "date")
       IN  IF daily_summary = {}
           THEN /\ tab7' = [ran |-> TRUE, daily_summary |-> daily_summary]
                /\ Raise("IndexError")
           ELSE /\ \E busiest_day \in FirstDescending(daily_summary, "minutes") :
                      tab7' = [ran |-> TRUE,
                               daily_summary |-> daily_summary,
                               busiest_day |-> busiest_day]
                /\ pc' = "tab8"
                /\ UNCHANGED error
    /\ UNCHANGED <<uploaded_files, df, users, min_date, max_date, selected_users,
                   selected_dates, filtered_df, tab1, tab2, tab3, tab4, tab5, tab6,
                   tab8, tab9, tab10>>

----------------------------------------------------------------------------
(* Tab 8, lines 323-331 *)

Tab8 ==
    /\ pc = "tab8"
    /\ tab8' = [ran |-> TRUE,
                tasks |-> Len(filtered_df),
                nunique |-> Cardinality(UniqueUsers(filtered_df))]
    /\ pc' = "tab9"
    /\ UNCHANGED <<uploaded_files, df, users, min_date, max_date, selected_users,
                   selected_dates, filtered_df, tab1, tab2, tab3, tab4, tab5, tab6,
                   tab7, tab9, tab10, error>>

----------------------------------------------------------------------------
(* Tab 9, lines 334-353 *)

\* comp_df is assigned in the else branch only (line 340), and line 347 reads
\* it in both branches: with fewer than two users the name is unbound in this
\* run and the read raises NameError.
Tab9 ==
    /\ pc = "tab9"
    /\ \E comp_users \in SUBSET users :
          IF Cardinality(comp_users) < 2
          THEN /\ tab9' = [ran |-> TRUE, comp_users |-> comp_users,
                           prompted |-> TRUE, comp_df_bound |-> FALSE]
               /\ Raise("NameError")
          ELSE LET comp_df == SelectSeq(filtered_df,
                                  LAMBDA r : r.user_first_name \in comp_users)
                   totals == GroupSum(comp_df, "user_first_name")
                   result == [ran |-> TRUE, comp_users |-> comp_users,
                              prompted |-> FALSE, comp_df_bound |-> TRUE,
                              comp_df |-> comp_df,
                              comp_summary |-> GroupSum(comp_df, "user_first_name,task")]
               IN  /\ IF comp_df # <<>>
                      THEN \E top \in FirstDescending(totals, "minutes") :
                              tab9' = [ran |-> TRUE, comp_users |-> comp_users,
                                       prompted |-> FALSE, comp_df_bound |-> TRUE,
                                       comp_df |-> comp_df,
                                       comp_summary |-> result.comp_summary,
                                       top_user |-> top.key,
                                       top_value |-> top.minutes]
                      ELSE tab9' = result
                   /\ pc' = "tab10"
                   /\ UNCHANGED error
    /\ UNCHANGED <<uploaded_files, df, users, min_date, max_date, selected_users,
                   selected_dates, filtered_df, tab1, tab2, tab3, tab4, tab5, tab6,
                   tab7, tab8, tab10>>

----------------------------------------------------------------------------
(* Tab 10, lines 357-377 *)

\* Lines 363-365.  pivot() makes a row per hour and a column per day that
\* occur in pivot, fillna(0) zeroes the cells of that table with no group, and
\* reindex(columns=ordered_days) then orders the columns and adds a column of
\* missing values for each day that does not occur.
PivotTable(pivot) ==
    LET hours == {p.key[1] : p \in pivot}
        days == {p.key[2] : p \in pivot}
    IN  [h \in hours |->
            [d \in Range(ordered_days) |->
                IF d \notin days THEN NA
                ELSE IF \E p \in pivot : p.key = <<h, d>>
                     THEN Num((CHOOSE p \in pivot : p.key = <<h, d>>).minutes)
                     ELSE Num(0)]]

HourTotal(pivot, h) == SumOver({p \in pivot : p.key[1] = h})

\* idxmax() on the empty per-hour totals raises ValueError (line 372); of equal
\* totals it returns the first, the smallest hour
Tab10 ==
    /\ pc = "tab10"
    /\ LET pivot == GroupSum(filtered_df, "hour,day")
           hours == {p.key[1] : p \in pivot}
       IN  IF pivot = {}
           THEN /\ tab10' = [ran |-> TRUE, pivot |-> pivot,
                             pivot_table |-> PivotTable(pivot)]
                /\ Raise("ValueError")
           ELSE /\ tab10' = [ran |-> TRUE, pivot |-> pivot,
                             pivot_table |-> PivotTable(pivot),
                             peak_hour |->
                                 CHOOSE h \in hours :
                                     /\ \A o \in hours :
                                           HourTotal(pivot, o) <= HourTotal(pivot, h)
                                     /\ \A o \in hours :
                                           HourTotal(pivot, o) = HourTotal(pivot, h)
                                               => h <= o]
                /\ pc' = "done"
                /\ UNCHANGED error
    /\ UNCHANGED <<uploaded_files, df, users, min_date, max_date, selected_users,
                   selected_dates, filtered_df, tab1, tab2, tab3, tab4, tab5, tab6,
                   tab7, tab8, tab9>>

Next ==
    \/ AwaitUpload \/ LoadAllData \/ Sidebar
    \/ Tab1 \/ Tab2 \/ Tab3 \/ Tab4 \/ Tab5
    \/ Tab6 \/ Tab7 \/ Tab8 \/ Tab9 \/ Tab10

Spec == Init /\ [][Next]_vars

----------------------------------------------------------------------------
(* Properties *)

TabPcs == {"tab1", "tab2", "tab3", "tab4", "tab5", "tab6", "tab7", "tab8",
           "tab9", "tab10", "done"}
\* the sidebar has built the filtered view in this run
ViewBuilt == pc \in TabPcs \/ tab1.ran

ViewIndexes == {filtered_df[i].index : i \in DOMAIN filtered_df}
MinutesOfView == Column(filtered_df, "minutes")
AsCells(ms) == [i \in DOMAIN ms |-> Num(ms[i])]

\* C1: with every offered user selected and the date range [min date, max
\* date] of the data, the filtered view is the loaded data, row for row.
C1_AllInclusiveIsIdentity ==
    (/\ ViewBuilt
     /\ selected_users = users
     /\ min_date # NA
     /\ selected_dates = <<Val(min_date), Val(max_date)>>)
        => filtered_df = df

C3_UserTotalsAddUp ==
    (tab1.ran /\ tab2.ran) =>
        /\ SumOver({[key |-> <<g.user_first_name, g.user_last_name, g.user_locale>>,
                  minutes |-> g.Total_Minutes] :
                       g \in tab1.user_summary}) = SeriesSum(MinutesOfView)
        /\ SumOver(tab2.time_chart) = SeriesSum(MinutesOfView)

\* C4 as stated: for the durations [1, 2, 3, 100], Q1 = 1.75, Q3 = 52,
\* IQR = 50.25, lower = -73.625, upper = 127.625 (in eighths: 14, 416, 402,
\* -589, 1021), and no row is an outlier.
C4_AsStated ==
    (tab3.ran /\ MinutesOfView = AsCells(<<1, 2, 3, 100>>)) =>
        /\ tab3.Q1 = Num(14)
        /\ tab3.Q3 = Num(416)
        /\ tab3.IQR = Num(402)
        /\ tab3.lower_bound = Num(0 - 589)
        /\ tab3.upper_bound = Num(1021)
        /\ tab3.outliers = <<>>

\* C4 amended: for the durations [1, 2, 3, 100], Q1 = 1.75, Q3 = 27.25,
\* IQR = 25.5, lower = -36.5, upper = 65.5 (in eighths: 14, 218, 204, -292,
\* 524), and exactly the row of 100 minutes is an outlier.
C4_Amended ==
    (tab3.ran /\ MinutesOfView = AsCells(<<1, 2, 3, 100>>)) =>
        /\ tab3.Q1 = Num(14)
        /\ tab3.Q3 = Num(218)
        /\ tab3.IQR = Num(204)
        /\ tab3.lower_bound = Num(0 - 292)
        /\ tab3.upper_bound = Num(524)
        /\ tab3.outliers = <<filtered_df[4]>>
        /\ filtered_df[4].minutes = Num(100)

C4_Witness ==
    /\ tab3.ran
    /\ MinutesOfView = AsCells(<<1, 2, 3, 100>>)
    /\ Len(tab3.outliers) = 1

\* the j-th smallest of the values: fewer than j values lie below it and at
\* least j values are at most it
OrderStatistic(values, j) ==
    CHOOSE v \in Range(values) :
        /\ Cardinality({i \in DOMAIN values : values[i] < v}) < j
        /\ Cardinality({i \in DOMAIN values : values[i] <= v}) >= j

\* the value at position (n-1)*k/4 of the sorted values, interpolated
\* linearly between its neighbours, in eighths
InterpolatedQuartile(values, k) ==
    LET pos == (Len(values) - 1) * k
        below == OrderStatistic(values, (pos \div 4) + 1)
        above == OrderStatistic(values, (pos \div 4) + 2)
    IN  8 * below + 2 * (pos % 4) * (above - below)

\* C5: with at least two durations present, Q1 and Q3 are the
\* linear-interpolation quantiles at 0.25 and 0.75, lower = Q1 - 1.5*(Q3-Q1),
\* upper = Q3 + 1.5*(Q3-Q1), and the outliers are exactly the rows, in order,
\* whose duration is strictly below lower or strictly above upper (never a
\* row with a missing duration or one on a bound); for the durations
\* [1, 2, 3, 3, 2, 1, 1000] exactly the row of 1000 minutes is an outlier.
C5_OutliersByInterpolatedQuartiles ==
    (tab3.ran /\ SeriesCount(MinutesOfView) >= 2) =>
        LET values == dropna(MinutesOfView)
            q1 == InterpolatedQuartile(values, 1)
            q3 == InterpolatedQuartile(values, 3)
            lower == (5 * q1 - 3 * q3) \div 2
            upper == (5 * q3 - 3 * q1) \div 2
            flagged == {i \in DOMAIN filtered_df :
                           /\ filtered_df[i].minutes # NA
                           /\ \/ 8 * Val(filtered_df[i].minutes) < lower
                              \/ 8 * Val(filtered_df[i].minutes) > upper}
        IN  /\ tab3.Q1 = Num(q1)
            /\ tab3.Q3 = Num(q3)
            /\ 2 * Val(tab3.lower_bound) = 5 * q1 - 3 * q3
            /\ 2 * Val(tab3.upper_bound) = 5 * q3 - 3 * q1
            /\ Len(tab3.outliers) = Cardinality(flagged)
            /\ \A i \in DOMAIN tab3.outliers :
                  /\ tab3.outliers[i] \in {filtered_df[f] : f \in flagged}
                  /\ \A j \in DOMAIN tab3.outliers :
                        i < j => tab3.outliers[i].index < tab3.outliers[j].index
            /\ (MinutesOfView = AsCells(<<1, 2, 3, 3, 2, 1, 1000>>)
                    => tab3.outliers = <<filtered_df[7]>>)

C5_Witness ==
    /\ tab3.ran
    /\ MinutesOfView = AsCells(<<1, 2, 3, 3, 2, 1, 1000>>)
    /\ Len(tab3.outliers) = 1
    /\ tab3.outliers[1].minutes = Num(1000)

\* the minutes of the view's rows at an hour and a weekday
CellSum(h, d) ==
    SeriesSum(Column(SelectSeq(filtered_df,
                         LAMBDA r : r.hour = Num(h) /\ day_name(r.date) = d),
                     "minutes"))

\* C6: the hourly heatmap has a row for each hour 0..23 and a column for each
\* weekday, every cell holds the minutes of its hour and weekday, and a cell
\* with no row holds 0.
C6_HeatmapIsDense ==
    tab10.ran =>
        /\ DOMAIN tab10.pivot_table = 0..23
        /\ \A h \in 0..23 : \A d \in Range(ordered_days) :
              tab10.pivot_table[h][d] = Num(CellSum(h, d))

\* C7: in the user summary, a user's total is the sum of the minutes present,
\* the task count is the number of the user's rows in the view, rows with
\* missing minutes included, and the average is the total divided by that
\* count (to two decimals).
C7_SummaryCountsEveryTask ==
    tab1.ran =>
        \A g \in tab1.user_summary :
            LET rows == SelectSeq(filtered_df,
                            LAMBDA r : /\ r.user_first_name = g.user_first_name
                                       /\ r.user_last_name = g.user_last_name
                                       /\ r.user_locale = g.user_locale)
            IN  /\ g.Total_Minutes = SeriesSum(Column(rows, "minutes"))
                /\ g.Task_Count = Len(rows)
                /\ g.Avg_Minutes_Per_Task = Round2(g.Total_Minutes, Len(rows))

\* C8: a run whose filtered view is empty raises no error.
C8_EmptyViewRaisesNothing ==
    (ViewBuilt /\ filtered_df = <<>>) => error = "none"

ValidFiles ==
    SelectSeq(uploaded_files, LAMBDA f : HasColumn(f, "started_at"))

\* C9: when one uploaded file lacks started_at and another has it, loading
\* raises no error and the data are the rows of the valid files in upload order.
C9_InvalidSourceIsConfined ==
    (/\ pc # "start"
     /\ ValidFiles # <<>>
     /\ Len(ValidFiles) < Len(uploaded_files))
        => /\ error = "none"
           /\ df = load_all_data(ValidFiles)

\* C10: with fewer than two comparison users the comparison step only
\* prompts and raises no error.
C10_ComparisonNeedsTwoUsers ==
    (tab9.ran /\ Cardinality(tab9.comp_users) < 2) =>
        /\ tab9.prompted
        /\ error = "none"

====
